---- MODULE Spec2Model ----
(***************************************************************************)
(* KafkaBackend (crawlfrontier/contrib/backends/remote.py): the frontier   *)
(* backend that serves locally buffered seeds, polls the "todo" topic for  *)
(* requests and publishes "done" events, with lazy connection of the       *)
(* producer and consumer roles and bounded retry loops.                    *)
(*                                                                         *)
(* One backend instance, one caller (the code has no threads).  A call     *)
(* that loops (_send_message, get_next_requests) takes one step per loop   *)
(* iteration; while it runs (pc # "idle") no other call can start.  The    *)
(* broker is the environment: every connect, send and poll draws its       *)
(* outcome from the outcomes the kafka library can produce.                *)
(***************************************************************************)
EXTENDS Integers, Sequences, FiniteSets, TLC

VARIABLES
    manager,        \* "real": a manager was passed; "TestManager": the substitute of line 50
    args,           \* constructor arguments wait_time and comm_tries as passed
    seeds,          \* self._seeds
    prod,           \* self._prod: 0 is None, k > 0 the k-th producer handle created
    cons,           \* self._cons: 0 is None, k > 0 the k-th consumer handle created
    pc,             \* position of the caller: "idle", "send" (loop of line 140), "poll" (loop of line 181)
    call,           \* the call in progress, or the last one completed, with its locals
    lifecycle,      \* history: which lifecycle call has completed (NotStarted, Started, Stopped)
    added,          \* history: every item passed to add_seeds, in order, until the broker yields
    returned,       \* history: every item get_next_requests returned, in order, until the broker yields
    brokerYielded,  \* history: some poll has returned a message
    stops,          \* history: the backend after each of the frontier_stop calls made in a row (first, latest)
    ensured         \* history: per role, how its last ensure-connected call ended ("ok", "failed")

vars == <<manager, args, seeds, prod, cons, pc, call, lifecycle, added,
          returned, brokerYielded, stops, ensured>>

----------------------------------------------------------------------------
(* Bounds of the model *)

MaxAdded == 2       \* items passed to add_seeds over a run, and items in the buffer
MaxItems == 2       \* items passed to one add_seeds call
MaxN     == 2       \* largest max_n_requests
MaxBatch == 2       \* largest batch a poll returns

(* Program constants *)

DEFAULT_WAIT_TIME  == 1
DEFAULT_COMM_TRIES == 5

----------------------------------------------------------------------------
(* Python values *)

None == [set |-> FALSE, val |-> 0]
Num(v) == [set |-> TRUE, val |-> v]

\* x or d taken as "d when x is None": 0 is kept
OrNoneOnly(x, d) == IF x.set THEN x.val ELSE d

\* x or d (lines 58-59): d when x is None or 0
Or(x, d) == IF x.set /\ x.val # 0 THEN x.val ELSE d

Min(a, b) == IF a < b THEN a ELSE b
Max(a, b) == IF a > b THEN a ELSE b

\* position a slice bound n denotes in a list of length len
SliceIndex(len, n) == IF n < 0 THEN Max(len + n, 0) ELSE Min(n, len)

\* s[:n]
SliceTo(s, n) == SubSeq(s, 1, SliceIndex(Len(s), n))

\* s[n:] taken one position too far
SliceFromSkipping(s, n) == SubSeq(s, SliceIndex(Len(s), n) + 2, Len(s))

\* s[n:]
SliceFrom(s, n) == SubSeq(s, SliceIndex(Len(s), n) + 1, Len(s))

\* JSON values a url field can hold: a string, or a number (kept as its digits)
Str(v) == [t |-> "str", v |-> v]
Number(v) == [t |-> "num", v |-> ToString(v)]

\* crawlfrontier.core.models.Request(url)
Request(u) == [url |-> u]

\* map(Request, urls), line 209
RECURSIVE Requests(_)
Requests(urls) ==
    IF urls = <<>> THEN <<>> ELSE <<Request(Head(urls))>> \o Requests(Tail(urls))

SeqsUpTo(S, n) == UNION {[1..k -> S] : k \in 0..n}

----------------------------------------------------------------------------
(* Configuration, lines 41-59 *)

\* constructor arguments: both unset, both 0, and explicit values
Configs == { [wait_time |-> None,   comm_tries |-> None],
             [wait_time |-> Num(0), comm_tries |-> Num(0)],
             [wait_time |-> Num(2), comm_tries |-> Num(1)],
             [wait_time |-> None,   comm_tries |-> Num(2)] }
Managers      == {"real", "TestManager"}

\* and negative values, which nothing in the constructor rejects; with a
\* negative comm_tries no loop iteration runs, so nothing sleeps or polls
\* for the negative wait_time
AnyConfigs == Configs \cup { [wait_time |-> Num(-1), comm_tries |-> Num(-1)] }

wait_time  == Or(args.wait_time, DEFAULT_WAIT_TIME)
comm_tries == Or(args.comm_tries, DEFAULT_COMM_TRIES)

\* the log methods TestManager sets on its logger (lines 26-31): the literals
\* 'info' and 'debug' have no comma between them and are one string
TestManagerLevels == {"info" \o "debug", "warning", "error"}

\* self._manager.logger.backend.<level> exists
HasLevel(level) == manager = "real" \/ level \in TestManagerLevels

----------------------------------------------------------------------------
(* The broker *)

ConnOutcomes == {"ok", "BrokerResponseError"}
SendOutcomes == {"ok", "BrokerResponseError"}

\* payloads found on the todo topic
Payloads == { "{\"url\": \"d\"}", "{\"url\": 5}", "{\"links\": []}", "[1]", "not json" }

\* what SimpleConsumer.get_messages(count, timeout) can return
Batches(count) == SeqsUpTo(Payloads, Min(Max(count, 0), MaxBatch))

----------------------------------------------------------------------------
(* Codec, lines 187-197 *)

Dict(hasUrl, url) == [type |-> "dict", hasUrl |-> hasUrl, url |-> url]
List == [type |-> "list", hasUrl |-> FALSE, url |-> Str("")]

\* self._decoder.decode(offmsg.message.value): the decoded value, or ValueError
decode(p) ==
    CASE p = "{\"url\": \"d\"}" -> [exc |-> "none", obj |-> Dict(TRUE, Str("d"))]
      [] p = "{\"url\": 5}"     -> [exc |-> "none", obj |-> Dict(TRUE, Number(5))]
      [] p = "{\"links\": []}"  -> [exc |-> "none", obj |-> Dict(FALSE, Str(""))]
      [] p = "[1]"              -> [exc |-> "none", obj |-> List]
      [] OTHER                  -> [exc |-> "ValueError", obj |-> List]

\* obj['url']: the value, KeyError (no such key) or TypeError (not a mapping)
GetUrl(obj) ==
    IF obj.type # "dict" THEN [exc |-> "TypeError", val |-> Str("")]
    ELSE IF ~obj.hasUrl THEN [exc |-> "KeyError", val |-> Str("")]
    ELSE [exc |-> "none", val |-> obj.url]

\* one iteration of the for loop of line 182 on message p: urls afterwards
HandleMessage(urls, p) ==
    LET d == decode(p) IN
    IF d.exc = "ValueError" THEN urls
    ELSE LET g == GetUrl(d.obj) IN
         IF g.exc \in {"KeyError", "TypeError"} THEN urls
         ELSE Append(urls, g.val)

\* the for loop of lines 182-197 over a whole batch
RECURSIVE HandleBatch(_, _)
HandleBatch(urls, batch) ==
    IF batch = <<>> THEN urls
    ELSE HandleBatch(HandleMessage(urls, Head(batch)), Tail(batch))

----------------------------------------------------------------------------
(* Connection manager, lines 78-110 *)

\* a handle distinct from the one it replaces
NewHandle(h) == h + 1

\* _connect_producer without the test of line 83: connects on every call
_connect_producer_always(h, outcome) ==
    IF outcome = "ok"
    THEN [handle |-> NewHandle(h), ret |-> TRUE, attempted |-> 1]
    ELSE [handle |-> 0, ret |-> FALSE, attempted |-> 1]

\* _connect_producer: handle afterwards, value returned, broker calls made
_connect_producer(h, outcome) ==
    IF h = 0
    THEN IF outcome = "ok"
         THEN [handle |-> NewHandle(h), ret |-> TRUE, attempted |-> 1]
         ELSE [handle |-> 0, ret |-> FALSE, attempted |-> 1]
    ELSE [handle |-> h, ret |-> TRUE, attempted |-> 0]

\* _connect_consumer without the return of line 108: a failure falls through to line 110
_connect_consumer_fallthrough(h, outcome) ==
    IF h = 0
    THEN IF outcome = "ok"
         THEN [handle |-> NewHandle(h), ret |-> TRUE, attempted |-> 1]
         ELSE [handle |-> 0, ret |-> TRUE, attempted |-> 1]
    ELSE [handle |-> h, ret |-> TRUE, attempted |-> 0]

\* _connect_consumer: handle afterwards, value returned, broker calls made
_connect_consumer(h, outcome) ==
    IF h = 0
    THEN IF outcome = "ok"
         THEN [handle |-> NewHandle(h), ret |-> TRUE, attempted |-> 1]
         ELSE [handle |-> 0, ret |-> FALSE, attempted |-> 1]
    ELSE [handle |-> h, ret |-> TRUE, attempted |-> 0]

----------------------------------------------------------------------------
(* Calls *)

Ops == {"__init__", "frontier_start", "frontier_stop", "add_seeds",
        "page_crawled", "request_error", "get_next_requests"}

\* a call as it starts: its arguments, locals and counters
NewCall(op) ==
    [op |-> op,
     status |-> "running",      \* "running", "returned" or "raised"
     exc |-> "none",            \* the exception that left the call
     n |-> 0,                   \* max_n_requests
     buffer |-> <<>>,           \* self._seeds when get_next_requests started
     role |-> "none",           \* the role whose connection the call ensured
     ensures |-> 0,             \* _connect_producer / _connect_consumer calls
     handle0 |-> 0,             \* that role's handle when it did
     prevFailed |-> FALSE,      \* the ensure-connected call before this one, same role, had failed
     attempted |-> 0,           \* broker connect calls
     outcome |-> "none",        \* how the broker answered the connect call
     connRet |-> FALSE,         \* what _connect_producer / _connect_consumer returned
     sends |-> 0,               \* send_messages calls
     n_tries |-> 0,             \* local n_tries of _send_message
     sleeps |-> 0,              \* time.sleep calls
     slept |-> 0,               \* seconds slept
     success |-> FALSE,         \* local success
     polls |-> 0,               \* get_messages calls
     fails |-> 0,               \* local fails of get_next_requests
     batch |-> <<>>,            \* the messages of the last poll
     urls |-> <<>>,             \* local urls
     result |-> <<>>]           \* requests returned

\* the record of an ensure-connected call on handle h with result r
Ensured(c, role, h, outcome, r) ==
    [c EXCEPT !.role = role,
              !.ensures = @ + 1,
              !.handle0 = h,
              !.prevFailed = (ensured[role] = "failed"),
              !.attempted = r.attempted,
              !.outcome = IF r.attempted = 1 THEN outcome ELSE "none",
              !.connRet = r.ret]

\* the call ends: normally when the logger has the level it logs at
Logged(c, level) ==
    IF HasLevel(level) THEN [c EXCEPT !.status = "returned"]
    ELSE [c EXCEPT !.status = "raised", !.exc = "AttributeError"]

\* how the ensure-connected call with result r ended, for the history
EnsuredRole(role, r) == [ensured EXCEPT ![role] = IF r.ret THEN "ok" ELSE "failed"]

Return(c) == [c EXCEPT !.status = "returned"]
Raise(c, e) == [c EXCEPT !.status = "raised", !.exc = e]

Snapshot == [seeds |-> seeds', prod |-> prod', cons |-> cons', lifecycle |-> lifecycle']

\* what a call outside frontier_stop leaves unchanged
Frame == /\ UNCHANGED <<manager, args>>
         /\ stops' = <<>>

\* the branch of line 169 taken only when the buffer can fill the whole request
FromBufferWhenEnough(s, max_n_requests) == Len(s) >= max_n_requests /\ s # <<>>

\* the branch of line 169: serve the call from the buffer
FromBuffer(s, max_n_requests) == s # <<>>

\* the loop condition of line 140 without the bound on n_tries
SendAgainUnbounded(c) == ~c.success

\* the loop condition of line 140 with <= for <
SendAgainInclusive(c) == ~c.success /\ c.n_tries <= comm_tries

\* the loop condition of line 140
SendAgain(c) == ~c.success /\ c.n_tries < comm_tries

\* the loop condition of line 181 with <= for <
PollAgainInclusive(c) == ~c.success /\ c.fails <= comm_tries

\* the loop condition of line 181
PollAgain(c) == ~c.success /\ c.fails < comm_tries

\* the histories after a step of get_next_requests that leaves call record c
Returned(c) ==
    /\ brokerYielded' = (brokerYielded \/ c.batch # <<>>)
    /\ returned' = IF brokerYielded' THEN <<>>
                   ELSE IF c.status = "returned" THEN returned \o c.result
                   ELSE returned
    /\ added' = IF brokerYielded' THEN <<>> ELSE added

----------------------------------------------------------------------------
(* Operations *)

\* lines 156-157
add_seeds(items) ==
    /\ pc = "idle"
    /\ Len(added) + Len(items) <= MaxAdded
    /\ Len(seeds) + Len(items) <= MaxAdded
    /\ seeds' = seeds \o items
    /\ added' = IF brokerYielded THEN <<>> ELSE added \o items
    /\ call' = Return(NewCall("add_seeds"))
    /\ Frame
    /\ UNCHANGED <<prod, cons, pc, lifecycle, returned, brokerYielded, ensured>>

\* lines 122-129
frontier_start(outcome) ==
    LET r == _connect_consumer(cons, outcome)
        c == Ensured(NewCall("frontier_start"), "consumer", cons, outcome, r)
    IN /\ pc = "idle"
       /\ cons' = r.handle
       /\ call' = Logged(c, IF r.ret THEN "info" ELSE "warning")
       /\ lifecycle' = IF call'.status = "returned" /\ lifecycle = "NotStarted"
                       THEN "Started" ELSE lifecycle
       /\ ensured' = EnsuredRole("consumer", r)
       /\ Frame
       /\ UNCHANGED <<seeds, prod, pc, added, returned, brokerYielded>>

\* lines 131-133: self._prod.stop(), an attribute of None when the handle is unset
frontier_stop ==
    /\ pc = "idle"
    /\ call' = IF prod = 0 THEN Raise(NewCall("frontier_stop"), "AttributeError")
               ELSE Return(NewCall("frontier_stop"))
    /\ lifecycle' = IF prod = 0 THEN lifecycle ELSE "Stopped"
    /\ UNCHANGED <<manager, args, seeds, prod, cons, pc, added, returned,
                   brokerYielded, ensured>>
    /\ stops' = IF Len(stops) < 2 THEN Append(stops, Snapshot)
                ELSE <<stops[1], Snapshot>>

\* request_error that publishes the error the way page_crawled publishes a page
request_error_forwarding ==
    \E outcome \in ConnOutcomes :
       LET r == _connect_producer(prod, outcome)
           c == Ensured(NewCall("request_error"), "producer", prod, outcome, r)
       IN /\ pc = "idle"
          /\ prod' = r.handle
          /\ IF r.ret /\ SendAgain(c)
             THEN pc' = "send" /\ call' = c
             ELSE pc' = "idle" /\ call' = Return(c)
          /\ ensured' = EnsuredRole("producer", r)
          /\ Frame
          /\ UNCHANGED <<seeds, cons, lifecycle, added, returned, brokerYielded>>

\* lines 165-166
request_error ==
    /\ pc = "idle"
    /\ call' = Return(NewCall("request_error"))
    /\ Frame
    /\ UNCHANGED <<seeds, prod, cons, pc, lifecycle, added, returned,
                   brokerYielded, ensured>>

\* lines 159-163 and 135-139: page_crawled up to the first test of the loop
page_crawled(outcome) ==
    LET r == _connect_producer(prod, outcome)
        c == Ensured(NewCall("page_crawled"), "producer", prod, outcome, r)
    IN /\ pc = "idle"
       /\ prod' = r.handle
       /\ IF r.ret /\ SendAgain(c)
          THEN pc' = "send" /\ call' = c
          ELSE pc' = "idle" /\ call' = Return(c)
       /\ ensured' = EnsuredRole("producer", r)
       /\ Frame
       /\ UNCHANGED <<seeds, cons, lifecycle, added, returned, brokerYielded>>

\* one iteration of the loop of _send_message that ensures the publisher
\* connection again after a failed send
SendStepReconnecting(outcome) ==
    LET c == IF outcome = "ok"
             THEN [call EXCEPT !.sends = @ + 1, !.success = TRUE]
             ELSE [call EXCEPT !.sends = @ + 1, !.n_tries = @ + 1,
                               !.sleeps = @ + 1, !.slept = @ + wait_time,
                               !.ensures = @ + 1]
    IN /\ pc = "send"
       /\ IF SendAgain(c)
          THEN pc' = "send" /\ call' = c
          ELSE pc' = "idle" /\ call' = Return(c)
       /\ UNCHANGED <<manager, args, seeds, prod, cons, lifecycle, added,
                      returned, brokerYielded, stops, ensured>>

\* one iteration of the loop of _send_message without the assignment of
\* line 143: a send that succeeded is not recorded
SendStepForgetful(outcome) ==
    LET c == IF outcome = "ok"
             THEN [call EXCEPT !.sends = @ + 1]
             ELSE [call EXCEPT !.sends = @ + 1, !.n_tries = @ + 1,
                               !.sleeps = @ + 1, !.slept = @ + wait_time]
    IN /\ pc = "send"
       /\ IF SendAgain(c)
          THEN pc' = "send" /\ call' = c
          ELSE pc' = "idle" /\ call' = Return(c)
       /\ UNCHANGED <<manager, args, seeds, prod, cons, lifecycle, added,
                      returned, brokerYielded, stops, ensured>>

\* lines 141-152: one iteration of the loop of _send_message
SendStep(outcome) ==
    LET c == IF outcome = "ok"
             THEN [call EXCEPT !.sends = @ + 1, !.success = TRUE]
             ELSE [call EXCEPT !.sends = @ + 1, !.n_tries = @ + 1,
                               !.sleeps = @ + 1, !.slept = @ + wait_time]
    IN /\ pc = "send"
       /\ IF SendAgain(c)
          THEN pc' = "send" /\ call' = c
          ELSE pc' = "idle" /\ call' = Return(c)
       /\ UNCHANGED <<manager, args, seeds, prod, cons, lifecycle, added,
                      returned, brokerYielded, stops, ensured>>

\* get_next_requests without the return of line 176: a failed connection goes
\* on to the loop
get_next_requests_noreturn(max_n_requests, outcome) ==
    LET c0 == [NewCall("get_next_requests") EXCEPT !.n = max_n_requests,
                                                   !.buffer = seeds]
    IN /\ pc = "idle"
       /\ IF FromBuffer(seeds, max_n_requests)
          THEN LET n == Min(Len(seeds), max_n_requests) IN
               /\ seeds' = SliceFrom(seeds, n)
               /\ call' = Return([c0 EXCEPT !.result = SliceTo(seeds, n)])
               /\ UNCHANGED <<cons, pc, ensured>>
          ELSE LET r == _connect_consumer(cons, outcome)
                   c == Ensured(c0, "consumer", cons, outcome, r)
               IN /\ cons' = r.handle
                  /\ ensured' = EnsuredRole("consumer", r)
                  /\ IF PollAgain(c) THEN pc' = "poll" /\ call' = c
                     ELSE pc' = "idle" /\ call' = Return(c)
                  /\ UNCHANGED seeds
       /\ Returned(call')
       /\ Frame
       /\ UNCHANGED <<prod, lifecycle>>

\* lines 168-180: get_next_requests up to the first test of the loop
get_next_requests(max_n_requests, outcome) ==
    LET c0 == [NewCall("get_next_requests") EXCEPT !.n = max_n_requests,
                                                   !.buffer = seeds]
    IN /\ pc = "idle"
       /\ IF FromBuffer(seeds, max_n_requests)
          THEN LET n == Min(Len(seeds), max_n_requests) IN
               /\ seeds' = SliceFrom(seeds, n)
               /\ call' = Return([c0 EXCEPT !.result = SliceTo(seeds, n)])
               /\ UNCHANGED <<cons, pc, ensured>>
          ELSE LET r == _connect_consumer(cons, outcome)
                   c == Ensured(c0, "consumer", cons, outcome, r)
               IN /\ cons' = r.handle
                  /\ ensured' = EnsuredRole("consumer", r)
                  /\ IF ~r.ret THEN pc' = "idle" /\ call' = Logged(c, "warning")
                     ELSE IF PollAgain(c) THEN pc' = "poll" /\ call' = c
                     ELSE pc' = "idle" /\ call' = Return(c)
                  /\ UNCHANGED seeds
       /\ Returned(call')
       /\ Frame
       /\ UNCHANGED <<prod, lifecycle>>

\* one iteration of the while loop with the assignment of line 185 moved
\* after the append of line 189: a round succeeds when it yields a url
PollStepUrlSuccess(batch) ==
    LET c1 == [call EXCEPT !.polls = @ + 1,
                           !.batch = batch,
                           !.success = (HandleBatch(<<>>, batch) # <<>>),
                           !.urls = HandleBatch(@, batch)]
        c == IF c1.success THEN c1 ELSE [c1 EXCEPT !.fails = @ + 1]
    IN /\ pc = "poll"
       /\ batch \in Batches(call.n)
       /\ IF PollAgain(c)
          THEN pc' = "poll" /\ call' = c
          ELSE pc' = "idle" /\ call' = Return([c EXCEPT !.result = Requests(c.urls)])
       /\ Returned(call')
       /\ UNCHANGED <<manager, args, seeds, prod, cons, lifecycle, stops, ensured>>

\* lines 182-209: one iteration of the while loop, on a poll that returned batch
PollStep(batch) ==
    LET c1 == [call EXCEPT !.polls = @ + 1,
                           !.batch = batch,
                           !.success = (batch # <<>>),
                           !.urls = HandleBatch(@, batch)]
        c == IF c1.success THEN c1 ELSE [c1 EXCEPT !.fails = @ + 1]
    IN /\ pc = "poll"
       /\ batch \in Batches(call.n)
       /\ IF PollAgain(c)
          THEN pc' = "poll" /\ call' = c
          ELSE pc' = "idle" /\ call' = Return([c EXCEPT !.result = Requests(c.urls)])
       /\ Returned(call')
       /\ UNCHANGED <<manager, args, seeds, prod, cons, lifecycle, stops, ensured>>

\* lines 182-184: get_messages raises, and nothing in get_next_requests catches it
PollRaise ==
    /\ pc = "poll"
    /\ pc' = "idle"
    /\ call' = Raise([call EXCEPT !.polls = @ + 1], "BrokerResponseError")
    /\ UNCHANGED <<manager, args, seeds, prod, cons, lifecycle, added,
                   returned, brokerYielded, stops, ensured>>

----------------------------------------------------------------------------
(* Specification *)

SeedUrls == {"a", "b"}
SeedRequests == {Request(Str(u)) : u \in SeedUrls}
Items == SeqsUpTo(SeedRequests, MaxItems)
NValues == -1 .. MaxN

\* lines 41-76: the backend as the constructor leaves it
Init ==
    /\ manager \in Managers
    /\ args \in Configs
    /\ seeds = <<>>
    /\ \E oc \in ConnOutcomes, op \in ConnOutcomes :
          LET rc == _connect_consumer(0, oc)
              rp == _connect_producer(0, op)
          IN /\ cons = rc.handle
             /\ prod = rp.handle
             /\ ensured = [consumer |-> IF rc.ret THEN "ok" ELSE "failed",
                           producer |-> IF rp.ret THEN "ok" ELSE "failed"]
    /\ pc = "idle"
    /\ call = Return(NewCall("__init__"))
    /\ lifecycle = "NotStarted"
    /\ added = <<>>
    /\ returned = <<>>
    /\ brokerYielded = FALSE
    /\ stops = <<>>

\* the backend as the constructor leaves it, negative arguments included
InitAnyConfig ==
    /\ manager \in Managers
    /\ args \in AnyConfigs
    /\ seeds = <<>>
    /\ \E oc \in ConnOutcomes, op \in ConnOutcomes :
          LET rc == _connect_consumer(0, oc)
              rp == _connect_producer(0, op)
          IN /\ cons = rc.handle
             /\ prod = rp.handle
             /\ ensured = [consumer |-> IF rc.ret THEN "ok" ELSE "failed",
                           producer |-> IF rp.ret THEN "ok" ELSE "failed"]
    /\ pc = "idle"
    /\ call = Return(NewCall("__init__"))
    /\ lifecycle = "NotStarted"
    /\ added = <<>>
    /\ returned = <<>>
    /\ brokerYielded = FALSE
    /\ stops = <<>>

Next ==
    \/ \E items \in Items : add_seeds(items)
    \/ \E outcome \in ConnOutcomes : frontier_start(outcome)
    \/ frontier_stop
    \/ request_error
    \/ \E outcome \in ConnOutcomes : page_crawled(outcome)
    \/ \E outcome \in SendOutcomes : SendStep(outcome)
    \/ \E n \in NValues, outcome \in ConnOutcomes : get_next_requests(n, outcome)
    \/ \E batch \in Batches(MaxN) : PollStep(batch)
    \/ PollRaise

Spec == Init /\ [][Next]_vars

\* a step of the call in progress: the caller is one thread, which runs on
\* until the call ends. These are the steps a running call always has before
\* it: a send attempt (line 140), a poll that returns nothing or raises
\* (line 181). The one other step of a running call, a poll that returns
\* messages, ends the call, so LoopStep is enabled exactly while a call runs
\* and a call that never ends takes no other step: weak fairness of LoopStep
\* says no more than that the thread is not suspended for ever.
LoopStep ==
    /\ pc # "idle"
    /\ \/ \E outcome \in SendOutcomes : SendStep(outcome)
       \/ PollStep(<<>>)
       \/ PollRaise

FairSpec == Spec /\ WF_vars(LoopStep)

SpecAnyConfig == InitAnyConfig /\ [][Next]_vars

TypeOK ==
    /\ pc \in {"idle", "send", "poll"}
    /\ call.op \in Ops
    /\ (pc = "idle") = (call.status # "running")
    /\ prod \in 0..1 /\ cons \in 0..1
    /\ comm_tries >= 1 /\ wait_time >= 1

----------------------------------------------------------------------------
(* Properties *)

Done(op) == call.op = op /\ call.status # "running"
Handle(role) == IF role = "producer" THEN prod ELSE cons

\* C1: while the broker yields nothing, what get_next_requests has returned,
\* call after call, followed by what the buffer still holds, is what add_seeds
\* was given, in the same order (nothing lost, duplicated or reordered), and
\* a call with max_n_requests >= 0 returns at most max_n_requests items.
SeedsFifo ==
    ~brokerYielded =>
        /\ returned \o seeds = added
        /\ (Done("get_next_requests") /\ call.n >= 0) => Len(call.result) <= call.n

\* two different seeds came back, one per call, in the order they were added
SeedsFifoWitness ==
    /\ ~brokerYielded
    /\ Done("get_next_requests") /\ call.n = 1 /\ Len(call.result) = 1
    /\ Len(returned) = 2 /\ returned[1] # returned[2]
    /\ returned = added /\ seeds = <<>>

\* C2: a get_next_requests call that starts with a non-empty buffer makes no
\* connect attempt and no poll and returns the head of the buffer, leaving
\* the rest; only a call that starts with an empty buffer polls.
BufferFirst ==
    call.op = "get_next_requests" =>
        /\ call.buffer # <<>> =>
              /\ call.attempted = 0 /\ call.polls = 0 /\ call.batch = <<>>
              /\ call.status = "returned"
              /\ call.result \o seeds = call.buffer
        /\ call.polls > 0 => call.buffer = <<>>

\* a call asking for 2 was served the single seed left, and an unconnected
\* consumer was not connected for it
BufferFirstWitness ==
    /\ Done("get_next_requests") /\ call.n = 2
    /\ Len(call.buffer) = 1 /\ call.result = call.buffer
    /\ cons = 0

\* C3: a page_crawled call with a connected publisher whose sends all fail
\* makes comm_tries send attempts, never more, and ends with success False.
SendExhausted ==
    (call.op = "page_crawled" /\ call.connRet /\ call.n_tries = call.sends) =>
        /\ call.sends <= comm_tries
        /\ call.status # "running" =>
              /\ call.sends = comm_tries
              /\ ~call.success
              /\ call.status = "returned"

\* five sends failed, with the default comm_tries, and the call ended
SendExhaustedWitness ==
    /\ Done("page_crawled") /\ call.connRet
    /\ comm_tries = DEFAULT_COMM_TRIES
    /\ call.sends = comm_tries /\ call.n_tries = call.sends /\ ~call.success

\* C4: a get_next_requests call with an empty buffer and a connected consumer
\* whose polls all return no message polls comm_tries times, never more, and
\* returns the empty list.
PollExhausted ==
    (call.op = "get_next_requests" /\ call.buffer = <<>> /\ call.connRet
        /\ call.fails = call.polls) =>
        /\ call.polls <= comm_tries
        /\ call.status # "running" =>
              /\ call.polls = comm_tries
              /\ call.status = "returned"
              /\ call.result = <<>>

\* five polls came back empty, with the default comm_tries, and the call ended
PollExhaustedWitness ==
    /\ Done("get_next_requests") /\ call.buffer = <<>> /\ call.connRet
    /\ comm_tries = DEFAULT_COMM_TRIES
    /\ call.polls = comm_tries /\ call.fails = call.polls

\* a well-formed todo message: structured data with a url field of string type
WellFormed(p) ==
    /\ decode(p).exc = "none"
    /\ decode(p).obj.type = "dict"
    /\ decode(p).obj.hasUrl
    /\ decode(p).obj.url.t = "str"

\* the urls of the well-formed messages of a batch, in arrival order
RECURSIVE WellFormedUrls(_)
WellFormedUrls(batch) ==
    IF batch = <<>> THEN <<>>
    ELSE (IF WellFormed(Head(batch)) THEN <<decode(Head(batch)).obj.url>> ELSE <<>>)
         \o WellFormedUrls(Tail(batch))

\* C5: the call that polled a batch returns the urls of the well-formed
\* messages of the batch, in arrival order, and nothing else.
BatchKeepsWellFormed ==
    (Done("get_next_requests") /\ call.status = "returned" /\ call.batch # <<>>) =>
        call.result = Requests(WellFormedUrls(call.batch))

\* C6: a frontier_stop call made after frontier_start has completed completes,
\* and the backend is Stopped.
StopCompletes ==
    (Done("frontier_stop") /\ lifecycle # "NotStarted") =>
        call.status = "returned" /\ lifecycle = "Stopped"

\* C7: the second of two frontier_stop calls in a row completes without error
\* and leaves the buffer, both handles and the lifecycle state as the first did.
StopIdempotent ==
    Len(stops) = 2 => call.status = "returned" /\ stops[2] = stops[1]

\* C8: an ensure-connected call on a role whose handle is set returns True,
\* makes no broker call and leaves the handle as it was.
EnsureConnectedNoop ==
    (call.role # "none" /\ call.handle0 # 0) =>
        /\ call.connRet
        /\ call.attempted = 0 /\ call.outcome = "none"
        /\ Handle(call.role) = call.handle0

\* page_crawled ensured a publisher that was connected, after a stop
EnsureConnectedNoopWitness ==
    /\ Done("page_crawled") /\ call.role = "producer" /\ call.handle0 # 0
    /\ lifecycle = "Stopped"

\* C9: an ensure-connected call the broker refuses returns False, raises
\* nothing and leaves the handle unset, and it stays unset until the next
\* ensure-connected call for the role; that call makes a connect attempt,
\* which returns True and sets the handle when the broker accepts it.
EnsureFailureRetried ==
    /\ \A role \in {"producer", "consumer"} :
          ensured[role] = "failed" => Handle(role) = 0
    /\ (call.role # "none" /\ call.outcome = "BrokerResponseError") =>
          /\ ~call.connRet
          /\ call.status # "raised"
          /\ Handle(call.role) = 0
          /\ ensured[call.role] = "failed"
    /\ (call.role # "none" /\ call.prevFailed) =>
          /\ call.attempted = 1
          /\ call.outcome = "ok" => call.connRet /\ Handle(call.role) # 0

\* the consumer's connection had failed, and the next call connected it
EnsureFailureRetriedWitness ==
    /\ call.role = "consumer" /\ call.prevFailed
    /\ call.attempted = 1 /\ call.outcome = "ok" /\ call.connRet
    /\ cons # 0

\* C10: frontier_start completes normally, and the backend is Started (or
\* already Stopped), whether the consumer is connected or not.
StartCompletes ==
    Done("frontier_start") =>
        call.status = "returned" /\ lifecycle # "NotStarted"

\* C11: a get_next_requests call that starts with an empty buffer and cannot
\* connect the consumer returns the empty list without raising, polls
\* nothing, and leaves the consumer handle unset and its connection marked
\* failed, so that the next call attempts it again.
ConnectFailureReturnsEmpty ==
    (call.op = "get_next_requests" /\ call.buffer = <<>> /\ ~call.connRet) =>
        /\ call.status = "returned" /\ pc = "idle"
        /\ call.result = <<>>
        /\ call.polls = 0 /\ call.batch = <<>>
        /\ cons = 0 /\ ensured["consumer"] = "failed"

\* the broker refused the consumer and the call returned nothing
ConnectFailureReturnsEmptyWitness ==
    /\ Done("get_next_requests") /\ call.buffer = <<>> /\ call.n = 2
    /\ call.attempted = 1 /\ call.outcome = "BrokerResponseError"
    /\ call.result = <<>>

\* C12: a publish ensures the publisher connection once, before the loop, and
\* never in it; when that fails the publish ends with success False after no
\* send and no sleep; sends are made only after the connection was ensured.
EnsuredOncePerPublish ==
    call.op = "page_crawled" =>
        /\ call.role = "producer" /\ call.ensures = 1 /\ call.attempted <= 1
        /\ ~call.connRet =>
              /\ call.status = "returned" /\ ~call.success
              /\ call.sends = 0 /\ call.sleeps = 0 /\ call.slept = 0
              /\ prod = 0
        /\ call.connRet => prod = NewHandle(0)

\* three sends failed in a publish that had ensured the connection once
EnsuredOncePerPublishWitness ==
    /\ call.op = "page_crawled" /\ pc = "send"
    /\ call.ensures = 1 /\ call.n_tries = 3 /\ call.sleeps = 3

\* send_messages calls of the current publish that succeeded
SendsOk == call.sends - call.n_tries

\* C13: in a publish no send follows a send that succeeded: while the publish
\* runs every send so far has failed, and when it has ended it made at most
\* comm_tries sends, at most one of them succeeded, that one was the last
\* (k failed sends, then send k + 1), and success is True exactly when one
\* succeeded.
PublishStopsAtSuccess ==
    call.op = "page_crawled" =>
        /\ call.sends <= comm_tries
        /\ SendsOk \in {0, 1}
        /\ call.status = "running" => SendsOk = 0 /\ ~call.success
        /\ call.status # "running" => call.success = (SendsOk = 1)
        /\ call.success => call.n_tries < comm_tries /\ call.sends = call.n_tries + 1

\* two sends failed and the third succeeded: three sends, success True
PublishStopsAtSuccessWitness ==
    /\ Done("page_crawled") /\ call.success
    /\ call.n_tries = 2 /\ call.sends = 3

\* get_messages calls of the current call that returned messages
PollsWithMessages == call.polls - call.fails

\* C14: get_next_requests stops polling right after the first poll that
\* returns a message, whatever the messages are; a poll that returns none is
\* one failed round; a call polls at most comm_tries times and at most one
\* of its polls returns messages.
ReadStopsAtFirstBatch ==
    (call.op = "get_next_requests" /\ call.status # "raised") =>
        /\ call.polls <= comm_tries
        /\ PollsWithMessages \in {0, 1}
        /\ (PollsWithMessages = 1) = (call.batch # <<>>)
        /\ call.batch # <<>> => call.status = "returned" /\ call.success
        /\ call.status = "running" => call.fails = call.polls

\* after two empty polls a poll returned two malformed messages: the call
\* ended with no request and without a fourth poll
ReadStopsAtFirstBatchWitness ==
    /\ Done("get_next_requests") /\ call.status = "returned"
    /\ call.fails = 2 /\ call.polls = 3 /\ comm_tries = DEFAULT_COMM_TRIES
    /\ call.batch = <<"not json", "{\"links\": []}">>
    /\ call.result = <<>>

\* C15: no call is left by a broker error: a call that ends has returned, or
\* has raised something other than BrokerResponseError.
NoBrokerErrorEscapes ==
    call.status = "raised" => call.exc # "BrokerResponseError"

\* C16: once frontier_stop has completed the publisher handle is unset, and
\* a page_crawled call made after it sends nothing on the stopped handle.
StopTearsDownPublisher ==
    lifecycle = "Stopped" =>
        /\ prod = 0
        /\ call.op = "page_crawled" => (call.handle0 = 0 /\ call.sends = 0)

\* C17: a request_error call, in whatever state it is made, returns at once,
\* sends nothing, makes no ensure-connected call, no connect attempt and no
\* poll, and leaves the buffer, both handles, the connection history and the
\* lifecycle state as they were.
RequestErrorNoop ==
    [][call'.op = "request_error" =>
          /\ pc = "idle" /\ pc' = "idle"
          /\ call'.status = "returned"
          /\ call'.sends = 0 /\ call'.ensures = 0 /\ call'.attempted = 0
          /\ call'.polls = 0
          /\ seeds' = seeds /\ prod' = prod /\ cons' = cons
          /\ ensured' = ensured /\ lifecycle' = lifecycle]_vars

\* request_error was called with seeds in the buffer and neither role connected
RequestErrorNoopWitness ==
    /\ Done("request_error")
    /\ seeds # <<>> /\ prod = 0 /\ cons = 0

\* C18: with the substitute logger no call is left by a log call: outside
\* frontier_stop, whose AttributeError comes from the unset handle, a call
\* made with TestManager never raises AttributeError, and frontier_start
\* with a connected consumer returns.
SubstituteLoggerAccepts ==
    manager = "TestManager" =>
        /\ call.op # "frontier_stop" => call.exc # "AttributeError"
        /\ (Done("frontier_start") /\ call.connRet) => call.status = "returned"

\* C19: every call ends, whatever the broker answers: a call in progress
\* leads to no call in progress, and a call makes at most comm_tries sends,
\* at most comm_tries sleeps of wait_time seconds each and at most
\* comm_tries polls, each with a timeout of wait_time seconds.
CallsTerminate ==
    /\ [](/\ call.sends <= comm_tries
          /\ call.sleeps <= comm_tries
          /\ call.slept = call.sleeps * wait_time
          /\ call.slept <= comm_tries * wait_time
          /\ call.polls <= comm_tries
          /\ call.polls * wait_time <= comm_tries * wait_time)
    /\ (pc # "idle") ~> (pc = "idle")

\* a publish ended after sleeping comm_tries times, and so the longest it can
CallsTerminateWitness ==
    /\ Done("page_crawled")
    /\ call.sleeps = comm_tries /\ call.slept = comm_tries * wait_time
    /\ wait_time = 2

\* a constructor argument that `or` replaces by the default
Falsy(x) == ~x.set \/ x.val = 0

\* a publish that reached its loop made a send, and a read that reached its
\* loop made a poll
LoopsRun ==
    /\ (Done("page_crawled") /\ call.connRet) => call.sends >= 1
    /\ (Done("get_next_requests") /\ call.buffer = <<>> /\ call.connRet) => call.polls >= 1

\* a publish or a read has come to its loop, and ended
PastLoop ==
    \/ Done("page_crawled") /\ call.connRet
    \/ Done("get_next_requests") /\ call.buffer = <<>> /\ call.connRet

\* C20, as claimed: whatever the constructor was given, the comm_tries and
\* wait_time a publish or a read uses in its loop are positive, and the loop
\* does not run zero times.
RetryAlwaysPositive ==
    PastLoop =>
        /\ comm_tries > 0 /\ wait_time > 0
        /\ LoopsRun

\* C20, amended: a comm_tries of 0 or unset becomes 5 and a wait_time of 0 or
\* unset becomes 1, any other value is used as given; so when the values
\* given are not negative, comm_tries and wait_time are positive, no loop
\* runs zero times and every sleep takes time.
ConfigDefaults ==
    /\ Falsy(args.comm_tries) => comm_tries = 5
    /\ Falsy(args.wait_time) => wait_time = 1
    /\ ~Falsy(args.comm_tries) => comm_tries = args.comm_tries.val
    /\ ~Falsy(args.wait_time) => wait_time = args.wait_time.val
    /\ (args.comm_tries.val >= 0 /\ args.wait_time.val >= 0) =>
          /\ comm_tries > 0 /\ wait_time > 0
          /\ LoopsRun
          /\ call.sleeps > 0 => call.slept >= call.sleeps

\* constructed with comm_tries = 0 and wait_time = 0, a publish made five
\* sends and slept five times one second
ConfigDefaultsWitness ==
    /\ args.comm_tries = Num(0) /\ args.wait_time = Num(0)
    /\ Done("page_crawled")
    /\ call.sends = 5 /\ call.sleeps = 5 /\ call.slept = 5

====
